---- MODULE Spec2Model ----
(***************************************************************************)
(* A model of pkg/bsdiff/bsdiff.go: the suffix sorter (qsufsort, split),   *)
(* the suffix-array search (search, matchlen), the signed 64-bit codec     *)
(* (offtout), the match/extend driver and patch serialiser (diffb) and the *)
(* chunked writer (putWriter).                                             *)
(*                                                                         *)
(* Go slices are modelled as TLA+ sequences; At(s, i) is the 0-based read  *)
(* s[i].  An index outside its slice makes the Go runtime panic: the       *)
(* operators of diffb carry an "ok" flag that goes FALSE at such an index. *)
(***************************************************************************)
EXTENDS Integers, Sequences, FiniteSets, TLC

VARIABLES
    pc,          \* position of the running operation
    oldbin,      \* diffb: the old bytes (qsufsort: buf)
    newbin,      \* diffb: the new bytes (search: the query)
    iii,         \* the suffix index I, 0-based function on 0..len(oldbin)
    vvv, h,      \* qsufsort: the inverse array V and the doubling step
    scan, ln, lastscan, lastpos, lastoffset,   \* diffb locals, line 129
    oldscore, scsc, pos,                       \* diffb locals, lines 131-132
    db, eb, dblen, eblen,                      \* diff / extra staging buffers
    ctrl,        \* bytes fed to the control-stream compressor
    header,      \* the header slice of diffb
    pf,          \* the patch buffer (BufWriter)
    rebuilt,     \* output of the patch applier
    st, en,      \* search: the index range
    x, buf,      \* offtout: the argument (a wide integer) and the 8 bytes
    dec,         \* the decoded value of buf
    lb, offs, written, err   \* putWriter: len(b), offset, chunks written, result

vars == <<pc, oldbin, newbin, iii, vvv, h, scan, ln, lastscan, lastpos, lastoffset,
          oldscore, scsc, pos, db, eb, dblen, eblen, ctrl, header, pf, rebuilt,
          st, en, x, buf, dec, lb, offs, written, err>>

(***************************************************************************)
(* Bounds of the model.                                                    *)
(***************************************************************************)
MaxLen == 4        \* longest old / new enumerated exhaustively
MaxOff == 40       \* offtout: every x in -MaxOff..MaxOff
MaxExtra == 30     \* putWriter: bytes beyond a multiple of the chunk size
MaxChunks == 2     \* putWriter: multiples of the chunk size

Bytes == {0, 1}    \* the byte values of the enumerated inputs

\* line 39
buffersize == 16384

(***************************************************************************)
(* Helpers for 0-based slices.                                             *)
(***************************************************************************)
At(s, i) == s[i + 1]

InRange(i, n) == i >= 0 /\ i < n

\* s[a:] and s[a:b] of Go
From(s, a) == SubSeq(s, a + 1, Len(s))

Slice(s, a, b) == SubSeq(s, a + 1, b)

Min(a, b) == IF a < b THEN a ELSE b

Zeros(n) == [i \in 1..n |-> 0]

RECURSIVE SeqsUpTo(_, _)
SeqsUpTo(S, n) ==
    IF n = 0 THEN {<<>>}
    ELSE LET shorter == SeqsUpTo(S, n - 1)
         IN shorter \cup {Append(s, b) : s \in {t \in shorter : Len(t) = n - 1}, b \in S}

(***************************************************************************)
(* Go's int is 64 bits wide and TLC's integers are not: an int is kept as  *)
(* a sign and a magnitude of three 24-bit limbs,                           *)
(*     value = (-1)^neg * (hi * 2^48 + mid * 2^24 + lo),   hi < 2^15,      *)
(* so that the codec is exercised up to 2^63 - 1.                          *)
(***************************************************************************)
Limb == 256 * 256 * 256

Wide(neg, hi, mid, lo) == [neg |-> neg, hi |-> hi, mid |-> mid, lo |-> lo]

\* a small integer (|v| < 2^31) as an int
ToWide(v) ==
    LET m == IF v < 0 THEN 0 - v ELSE v
    IN Wide(v < 0, 0, m \div Limb, m % Limb)

\* an int of small magnitude as an integer
ToInt(w) ==
    LET m == w.mid * Limb + w.lo
    IN IF w.neg THEN 0 - m ELSE m

\* y % 256, y -= b (b is y % 256: no borrow), y / 256 on magnitudes
WMod256(y) == y.lo % 256

WSub(y, b) == [y EXCEPT !.lo = @ - b]

WDiv256(y) ==
    [y EXCEPT !.hi = y.hi \div 256,
              !.mid = (y.mid \div 256) + (y.hi % 256) * 65536,
              !.lo = (y.lo \div 256) + (y.mid % 256) * 65536]

\* b | 0x80 on a byte
Or80(b) == IF b >= 128 THEN b ELSE b + 128

\* lines 359-380: buf[k] = byte(y % 256); y -= int(buf[k]); y = y / 256
RECURSIVE OfftoutBytes(_, _)
OfftoutBytes(y, k) ==
    IF k = 7 THEN <<WMod256(y)>>
    ELSE <<WMod256(y)>> \o OfftoutBytes(WDiv256(WSub(y, WMod256(y))), k + 1)

\* offtout with line 382-384 dropped: the sign is never written
OfftoutNoSign(w) == OfftoutBytes([w EXCEPT !.neg = FALSE], 0)

offtout(w) ==
    LET y == [w EXCEPT !.neg = FALSE]       \* lines 354-358: y = |x|
        b == OfftoutBytes(y, 0)
    IN IF w.neg THEN [b EXCEPT ![8] = Or80(@)] ELSE b

\* The decoder of the paired applier (spec 4.1): magnitude from the low 63
\* bits, sign from the top bit of byte 7; -0 is 0.
offtin(b) ==
    LET hi == b[7] + (b[8] % 128) * 256
        mid == b[4] + b[5] * 256 + b[6] * 65536
        lo == b[1] + b[2] * 256 + b[3] * 65536
    IN Wide(b[8] >= 128 /\ (hi # 0 \/ mid # 0 \/ lo # 0), hi, mid, lo)

(***************************************************************************)
(* split and qsufsort, lines 388-532.  iii and vvv are 0-based functions   *)
(* on 0..len(buf); the pair is carried as a record [I, V].                 *)
(***************************************************************************)
Swap(I, a, b) == [I EXCEPT ![a] = I[b], ![b] = I[a]]

\* lines 463-473: the inner pass of the selection sort; returns [I, j]
RECURSIVE SelectPass(_, _, _, _, _, _, _, _)
SelectPass(I, V, k, i, j, xx, lim, hh) ==
    IF ~(k + i < lim) THEN [I |-> I, j |-> j]
    ELSE LET key == V[I[k + i] + hh]
             x1 == IF key < xx THEN key ELSE xx
             j1 == IF key < xx THEN 0 ELSE j
         IN IF key = x1
            THEN SelectPass(Swap(I, k + j1, k + i), V, k, i + 1, j1 + 1, x1, lim, hh)
            ELSE SelectPass(I, V, k, i + 1, j1, x1, lim, hh)

\* V[I[a + i]] = val for i in 0..cnt-1 (lines 474-476 and 522-524)
SetRanks(I, V, a, cnt, val) ==
    [q \in DOMAIN V |->
        IF \E i \in 0..(cnt - 1) : I[a + i] = q THEN val ELSE V[q]]

\* lines 460-480: the selection sort of a group shorter than 16
RECURSIVE SplitSmall(_, _, _, _, _)
SplitSmall(I, V, k, lim, hh) ==
    IF ~(k < lim) THEN [I |-> I, V |-> V]
    ELSE LET p == SelectPass(I, V, k, 1, 1, V[I[k] + hh], lim, hh)
             V1 == SetRanks(p.I, V, k, p.j, k + p.j - 1)
             I1 == IF p.j = 1 THEN [p.I EXCEPT ![k] = -1] ELSE p.I
         IN SplitSmall(I1, V1, k + p.j, lim, hh)

\* lines 486-492: the number of keys below the pivot, and equal to it
CountLess(I, V, start, len, hh, xx) ==
    Cardinality({i \in start..(start + len - 1) : V[I[i] + hh] < xx})

CountEqual(I, V, start, len, hh, xx) ==
    Cardinality({i \in start..(start + len - 1) : V[I[i] + hh] = xx})

\* lines 499-509; returns [I, j, k]
RECURSIVE PartitionLess(_, _, _, _, _, _, _, _, _)
PartitionLess(I, V, i, j, k, jj, kk, hh, xx) ==
    IF ~(i < jj) THEN [I |-> I, j |-> j, k |-> k]
    ELSE IF V[I[i] + hh] < xx THEN PartitionLess(I, V, i + 1, j, k, jj, kk, hh, xx)
    ELSE IF V[I[i] + hh] = xx
         THEN PartitionLess(Swap(I, i, jj + j), V, i, j + 1, k, jj, kk, hh, xx)
         ELSE PartitionLess(Swap(I, i, kk + k), V, i, j, k + 1, jj, kk, hh, xx)

\* lines 510-517; returns I
RECURSIVE PartitionEqual(_, _, _, _, _, _, _, _)
PartitionEqual(I, V, j, k, jj, kk, hh, xx) ==
    IF ~(jj + j < kk) THEN I
    ELSE IF V[I[jj + j] + hh] = xx THEN PartitionEqual(I, V, j + 1, k, jj, kk, hh, xx)
    ELSE PartitionEqual(Swap(I, jj + j, kk + k), V, j, k + 1, jj, kk, hh, xx)

RECURSIVE split(_, _, _, _, _)
split(I, V, start, len, hh) ==
    IF len < 16 THEN SplitSmall(I, V, start, start + len, hh)
    ELSE LET xx == V[I[start + (len \div 2)] + hh]                \* line 484
             jj == CountLess(I, V, start, len, hh, xx) + start     \* line 493
             kk == CountEqual(I, V, start, len, hh, xx) + jj       \* line 494
             p1 == PartitionLess(I, V, start, 0, 0, jj, kk, hh, xx)
             I2 == PartitionEqual(p1.I, V, p1.j, p1.k, jj, kk, hh, xx)
             s1 == IF jj > start                                  \* lines 518-520
                   THEN split(I2, V, start, jj - start, hh)
                   ELSE [I |-> I2, V |-> V]
             V3 == SetRanks(s1.I, s1.V, jj, kk - jj, kk - 1)      \* lines 522-524
             I3 == IF jj = kk - 1 THEN [s1.I EXCEPT ![jj] = -1] ELSE s1.I
         IN IF start + len > kk                                   \* lines 529-531
            THEN split(I3, V3, kk, start + len - kk, hh)
            ELSE [I |-> I3, V |-> V3]

\* lines 394-396: buckets[buf[i]]++
RECURSIVE Histogram(_, _, _)
Histogram(b, B, i) ==
    IF ~(i < Len(b)) THEN B
    ELSE Histogram(b, [B EXCEPT ![At(b, i)] = @ + 1], i + 1)

\* lines 398-400: buckets[i] += buckets[i-1] for i = a, a+1, .., b-1 in turn
\* (the range is halved and the first half evaluated before the second to
\* keep the evaluation shallow; the order is the loop's, and a count is
\* never negative)
RECURSIVE PrefixSums(_, _, _)
PrefixSums(B, a, b) ==
    IF a >= b THEN B
    ELSE IF b = a + 1 THEN [B EXCEPT ![a] = @ + B[a - 1]]
    ELSE LET m == (a + b) \div 2
             B1 == PrefixSums(B, a, m)
         IN IF B1[a] >= 0 THEN PrefixSums(B1, m, b) ELSE B1

\* lines 402-404: buckets[i] = buckets[i-1] for i = b-1, b-2, .., a in turn
RECURSIVE ShiftLoop(_, _, _)
ShiftLoop(B, a, b) ==
    IF a >= b THEN B
    ELSE IF b = a + 1 THEN [B EXCEPT ![a] = B[a - 1]]
    ELSE LET m == (a + b) \div 2
             B1 == ShiftLoop(B, m, b)
         IN IF B1[m] >= 0 THEN ShiftLoop(B1, a, m) ELSE B1

\* lines 402-405
ShiftRight(B) == [ShiftLoop(B, 1, 256) EXCEPT ![0] = 0]

\* lines 408-411: buckets[buf[i]]++; iii[buckets[buf[i]]] = i; returns [I, B]
RECURSIVE PlaceBytes(_, _, _, _)
PlaceBytes(b, I, B, i) ==
    IF ~(i < Len(b)) THEN [I |-> I, B |-> B]
    ELSE LET c == At(b, i)
             B1 == [B EXCEPT ![c] = @ + 1]
         IN PlaceBytes(b, [I EXCEPT ![B1[c]] = i], B1, i + 1)

\* lines 419-423: a bucket of one byte is a sorted group
MarkSingletons(I, B) ==
    [p \in DOMAIN I |->
        IF \E c \in 1..255 : B[c] = B[c - 1] + 1 /\ B[c] = p THEN -1 ELSE I[p]]

\* lines 430-446: one pass over the groups; returns [I, V]
RECURSIVE SortPass(_, _, _, _, _, _)
SortPass(I, V, i, len, hh, n) ==
    IF ~(i < n + 1)
    THEN [I |-> IF len # 0 THEN [I EXCEPT ![i - len] = -len] ELSE I, V |-> V]
    ELSE IF I[i] < 0 THEN SortPass(I, V, i - I[i], len - I[i], hh, n)
    ELSE LET I1 == IF len # 0 THEN [I EXCEPT ![i - len] = -len] ELSE I
             l1 == V[I1[i]] + 1 - i
             s == split(I1, V, i, l1, hh)
         IN SortPass(s.I, s.V, i + l1, 0, hh, n)

\* the off-by-one of stopping the loop of line 449 at i < bufzise
RECURSIVE InvertShort(_, _, _, _)
InvertShort(I, V, i, n) ==
    IF ~(i < n) THEN I
    ELSE InvertShort([I EXCEPT ![V[i]] = i], V, i + 1, n)

\* lines 449-451: iii[vvv[i]] = i for i = 0..n in turn
RECURSIVE Invert(_, _, _, _)
Invert(I, V, i, n) ==
    IF ~(i < n + 1) THEN I
    ELSE Invert([I EXCEPT ![V[i]] = i], V, i + 1, n)

\* lines 389-424: the state of iii and vvv before the doubling; returns [I, V]
BucketSort(b) ==
    LET n == Len(b)
        B0 == ShiftRight(PrefixSums(Histogram(b, [c \in 0..255 |-> 0], 0), 1, 256))
        pl == PlaceBytes(b, [i \in 0..n |-> 0], B0, 0)
        I0 == [pl.I EXCEPT ![0] = n]                               \* line 412
        V0 == [i \in 0..n |-> IF i = n THEN 0 ELSE pl.B[At(b, i)]]  \* lines 414-417
    IN [I |-> [MarkSingletons(I0, pl.B) EXCEPT ![0] = -1],         \* lines 419-424
        V |-> V0]

(***************************************************************************)
(* matchlen and search, lines 311-349.                                     *)
(***************************************************************************)
RECURSIVE MatchFrom(_, _, _)
MatchFrom(a, b, i) ==
    IF i < Len(a) /\ i < Len(b) /\ At(a, i) = At(b, i) THEN MatchFrom(a, b, i + 1) ELSE i

matchlen(a, b) == MatchFrom(a, b, 0)

\* bytes.Compare(a, b) < 0
RECURSIVE LessFrom(_, _, _)
LessFrom(a, b, i) ==
    IF i >= Len(b) THEN FALSE
    ELSE IF i >= Len(a) THEN TRUE
    ELSE IF At(a, i) # At(b, i) THEN At(a, i) < At(b, i)
    ELSE LessFrom(a, b, i + 1)

BytesLess(a, b) == LessFrom(a, b, 0)

\* lines 316-326 with the tie of line 320 going to st
SearchBaseTieSt(I, old, q, s, e) ==
    LET xx == matchlen(From(old, I[s]), q)
        yy == matchlen(From(old, I[e]), q)
    IN IF xx >= yy THEN [ln |-> xx, pos |-> I[s]] ELSE [ln |-> yy, pos |-> I[e]]

\* lines 316-326
SearchBase(I, old, q, s, e) ==
    LET xx == matchlen(From(old, I[s]), q)
        yy == matchlen(From(old, I[e]), q)
    IN IF xx > yy THEN [ln |-> xx, pos |-> I[s]] ELSE [ln |-> yy, pos |-> I[e]]

\* returns [ln, pos]: the int returned and *pos
RECURSIVE search(_, _, _, _, _)
search(I, old, q, s, e) ==
    IF e - s < 2 THEN SearchBase(I, old, q, s, e)
    ELSE LET xx == s + ((e - s) \div 2)
             cmpln == Min(Len(old) - I[xx], Len(q))
         IN IF BytesLess(Slice(old, I[xx], I[xx] + cmpln), Slice(q, 0, cmpln))
            THEN search(I, old, q, xx, e)
            ELSE search(I, old, q, s, xx)

(***************************************************************************)
(* The inputs.                                                             *)
(***************************************************************************)
ShortInputs == SeqsUpTo(Bytes, MaxLen)

\* Inputs long enough for the partition of split (groups of 16 and more)
\* and for a match of more than 8 bytes.
LongInputs ==
    { Zeros(18),
      [i \in 1..20 |-> (i + 1) % 2],
      [i \in 1..21 |-> IF i % 3 = 0 THEN 1 ELSE 0],
      [i \in 1..21 |-> IF i \in {10, 17} THEN 1 ELSE 0],
      <<1, 0, 255, 0, 0, 1, 0, 255, 1, 1, 0, 0, 255, 0, 1, 0, 0, 0, 1, 255, 0, 1>> }

\* the old and new file of the applier's test, lines 602-610
oldfile == <<102, 255, 209, 85, 86, 16, 48, 0, 0, 0, 0, 0, 0, 0, 209>>

newfilecomp == <<102, 255, 209, 85, 86, 16, 48, 0, 68, 69, 0, 0, 0, 0, 0, 0, 209, 255, 209>>

\* Pairs whose walk takes the break of lines 163-165 (a match more than 8 bytes
\* better than the previous offset) and the overlap branch of lines 203-224.
WalkPairs ==
    { <<<<0, 1, 0, 0, 0, 1, 0, 1, 1, 1, 0, 1, 1, 0, 0>>,
        <<1, 0, 1, 1, 1, 0, 1, 1, 0, 0, 0, 1, 1, 0, 0, 1, 1, 0, 0, 1>>>>,
      <<<<1, 0, 1, 1, 0, 0, 1, 1, 0, 0, 0, 0, 1, 1, 0>>,
        <<1, 1, 0, 0, 1, 1, 0, 0, 0, 0, 1, 1, 1, 1, 1>>>> }

LongQueries == { <<0, 0, 0, 1>>, <<1, 0, 255>>, <<0, 1, 0, 1, 0, 1, 0, 1, 0, 1, 1>>, <<0, 0, 209>> }

DiffIdle ==
    /\ scan = 0 /\ ln = 0 /\ lastscan = 0 /\ lastpos = 0 /\ lastoffset = 0
    /\ oldscore = 0 /\ scsc = 0 /\ pos = 0
    /\ db = <<>> /\ eb = <<>> /\ dblen = 0 /\ eblen = 0
    /\ ctrl = <<>> /\ header = <<>> /\ pf = <<>> /\ rebuilt = <<>>

SearchIdle == st = 0 /\ en = 0

SortIdle == iii = <<>> /\ vvv = <<>> /\ h = 0

CodecIdle == x = ToWide(0) /\ buf = <<>> /\ dec = ToWide(0)

WriterIdle == lb = 0 /\ offs = 0 /\ written = <<>> /\ err = "none"

sortVars == <<iii, vvv, h>>

diffVars == <<scan, ln, lastscan, lastpos, lastoffset, oldscore, scsc, pos,
              db, eb, dblen, eblen, ctrl, header, pf, rebuilt>>

codecVars == <<x, buf, dec>>

writerVars == <<lb, offs, written, err>>

(***************************************************************************)
(* The suffix sorter and the search on their own: qsufsort(iii, vvv, buf)  *)
(* and then search(iii, oldbin, q, st, en, &pos) for a query and a range.  *)
(***************************************************************************)
InitSort ==
    /\ pc = "sort"
    /\ oldbin \in ShortInputs \cup LongInputs \cup {oldfile}
    /\ newbin \in ShortInputs \cup LongQueries
    /\ SortIdle /\ DiffIdle /\ SearchIdle /\ CodecIdle /\ WriterIdle

\* lines 389-424: the buckets of the first byte
QsufsortInit ==
    /\ pc = "sort"
    /\ LET s0 == BucketSort(oldbin)
       IN iii' = s0.I /\ vvv' = s0.V
    /\ h' = 1
    /\ pc' = "doubling"
    /\ UNCHANGED <<oldbin, newbin, st, en, diffVars, codecVars, writerVars>>

\* lines 426-447: one pass of the doubling loop, then h += h
QsufsortPass ==
    /\ pc = "doubling"
    /\ iii[0] # -(Len(oldbin) + 1)
    /\ LET s1 == SortPass(iii, vvv, 0, 0, h, Len(oldbin))
       IN iii' = s1.I /\ vvv' = s1.V
    /\ h' = h + h
    /\ UNCHANGED <<pc, oldbin, newbin, st, en, diffVars, codecVars, writerVars>>

\* lines 449-452: the loop has ended; vvv is inverted into iii
QsufsortFinish ==
    /\ pc = "doubling"
    /\ iii[0] = -(Len(oldbin) + 1)
    /\ iii' = Invert(iii, vvv, 0, Len(oldbin))
    /\ pc' = "sorted"
    /\ UNCHANGED <<vvv, h, oldbin, newbin, st, en, diffVars, codecVars, writerVars>>

Qsufsort == QsufsortInit \/ QsufsortPass \/ QsufsortFinish

Search ==
    /\ pc = "sorted"
    /\ \E s \in 0..Len(oldbin) : \E e \in s..Len(oldbin) :
          LET r == search(iii, oldbin, newbin, s, e)
          IN /\ st' = s /\ en' = e
             /\ ln' = r.ln /\ pos' = r.pos
    /\ pc' = "found"
    /\ UNCHANGED <<oldbin, newbin, sortVars, scan, lastscan, lastpos, lastoffset,
                   oldscore, scsc, db, eb, dblen, eblen, ctrl, header, pf,
                   rebuilt, codecVars, writerVars>>

NextSort == Qsufsort \/ Search

SpecSort == InitSort /\ [][NextSort]_vars

(***************************************************************************)
(* The codec on its own: offtout(x, buf), then the applier's decoding.     *)
(***************************************************************************)
\* magnitudes at the byte and limb boundaries, up to 2^63 - 1
EdgeMagnitudes ==
    { <<0, 0, 255>>, <<0, 0, 256>>, <<0, 0, 65535>>, <<0, 0, 65536>>,
      <<0, 0, Limb - 1>>, <<0, 1, 0>>, <<0, 127, Limb - 1>>, <<0, 128, 0>>,
      <<0, 255, Limb - 1>>, <<0, Limb - 1, Limb - 1>>, <<1, 0, 0>>,
      <<255, Limb - 1, Limb - 1>>, <<256, 0, 0>>, <<256, 0, 1>>,
      <<32767, 0, 0>>, <<32767, Limb - 1, Limb - 1>> }

CodecInputs ==
    {ToWide(v) : v \in (0 - MaxOff)..MaxOff}
        \cup {Wide(n, m[1], m[2], m[3]) : n \in BOOLEAN, m \in EdgeMagnitudes}

InitCodec ==
    /\ pc = "encode"
    /\ x \in CodecInputs
    /\ buf = <<>> /\ dec = ToWide(0)
    /\ oldbin = <<>> /\ newbin = <<>>
    /\ SortIdle /\ DiffIdle /\ SearchIdle /\ WriterIdle

Offtout ==
    /\ pc = "encode"
    /\ buf' = offtout(x)
    /\ pc' = "decode"
    /\ UNCHANGED <<x, dec, oldbin, newbin, sortVars, st, en, diffVars, writerVars>>

Offtin ==
    /\ pc = "decode"
    /\ dec' = offtin(buf)
    /\ pc' = "decoded"
    /\ UNCHANGED <<x, buf, oldbin, newbin, sortVars, st, en, diffVars, writerVars>>

NextCodec == Offtout \/ Offtin

SpecCodec == InitCodec /\ [][NextCodec]_vars

(***************************************************************************)
(* diffb, lines 84-308.  The operators below read the locals of diffb from *)
(* the state; each returns its results with an "ok" flag, FALSE when an    *)
(* index is outside its slice (a panic of the Go runtime).                 *)
(***************************************************************************)
\* The compressor is a library outside this repository: a frame is modelled
\* by the bzip2 stream magic "BZh9", the bytes fed to it, and the
\* end-of-stream magic; only the frame boundaries matter to diffb.
Bzip2(stream) == <<66, 90, 104, 57>> \o stream \o <<23, 114, 69, 56, 80, 144>>

\* "BSDIFF40", line 117
Magic == <<66, 83, 68, 73, 70, 70, 52, 48>>

\* lines 114-120: header := make([]byte, 32) and its four fields
NewHeader(newsize) ==
    Magic \o offtout(ToWide(0)) \o offtout(ToWide(0)) \o offtout(ToWide(newsize))

\* copy of 8 bytes into header[at:] (offtout(v, header[at:]))
PutField(hdr, at, v) ==
    [k \in 1..Len(hdr) |->
        IF k > at /\ k <= at + 8 THEN offtout(ToWide(v))[k - at] ELSE hdr[k]]

\* pf.Seek(0, io.SeekStart); pf.Write(header), lines 295-300
Overwrite(p, hdr) ==
    [k \in 1..(IF Len(hdr) > Len(p) THEN Len(hdr) ELSE Len(p)) |->
        IF k <= Len(hdr) THEN hdr[k] ELSE p[k]]

\* lines 154-159; returns [ok, scsc, oldscore]
RECURSIVE CountLoop(_, _, _)
CountLoop(sc, score, lim) ==
    IF ~(sc < lim) THEN [ok |-> TRUE, scsc |-> sc, oldscore |-> score]
    ELSE IF sc + lastoffset < Len(oldbin)
         THEN IF ~InRange(sc + lastoffset, Len(oldbin)) \/ ~InRange(sc, Len(newbin))
              THEN [ok |-> FALSE, scsc |-> sc, oldscore |-> score]
              ELSE CountLoop(sc + 1,
                             IF At(oldbin, sc + lastoffset) = At(newbin, sc)
                             THEN score + 1 ELSE score,
                             lim)
         ELSE CountLoop(sc + 1, score, lim)

\* lines 151-169: for scan = scsc; scan < newsize; scan++
\* returns [ok, scan, scsc, ln, pos, oldscore]
RECURSIVE InnerLoop(_, _, _, _, _)
InnerLoop(sn, sc, l, p, score) ==
    IF ~(sn < Len(newbin))
    THEN [ok |-> TRUE, scan |-> sn, scsc |-> sc, ln |-> l, pos |-> p, oldscore |-> score]
    ELSE LET r == search(iii, oldbin, From(newbin, sn), 0, Len(oldbin))
             c == CountLoop(sc, score, sn + r.ln)
             out(okv, scorev) ==
                 [ok |-> okv, scan |-> sn, scsc |-> c.scsc, ln |-> r.ln,
                  pos |-> r.pos, oldscore |-> scorev]
         IN IF ~c.ok THEN out(FALSE, c.oldscore)
            ELSE IF r.ln = c.oldscore /\ r.ln # 0 THEN out(TRUE, c.oldscore)
            ELSE IF r.ln > c.oldscore + 8 THEN out(TRUE, c.oldscore)
            ELSE IF sn + lastoffset < Len(oldbin)
                 THEN IF ~InRange(sn + lastoffset, Len(oldbin))
                      THEN out(FALSE, c.oldscore)
                      ELSE InnerLoop(sn + 1, c.scsc, r.ln, r.pos,
                                     IF At(oldbin, sn + lastoffset) = At(newbin, sn)
                                     THEN c.oldscore - 1 ELSE c.oldscore)
                 ELSE InnerLoop(sn + 1, c.scsc, r.ln, r.pos, c.oldscore)

\* lines 177-186; returns [ok, lenf]
RECURSIVE ForwardLoop(_, _, _, _)
ForwardLoop(i, s, Sf, lenf) ==
    IF ~(lastscan + i < scan /\ lastpos + i < Len(oldbin))
    THEN [ok |-> TRUE, lenf |-> lenf]
    ELSE IF ~InRange(lastpos + i, Len(oldbin)) \/ ~InRange(lastscan + i, Len(newbin))
    THEN [ok |-> FALSE, lenf |-> lenf]
    ELSE LET s1 == IF At(oldbin, lastpos + i) = At(newbin, lastscan + i) THEN s + 1 ELSE s
             i1 == i + 1
         IN IF s1 * 2 - i1 > Sf * 2 - lenf
            THEN ForwardLoop(i1, s1, s1, i1)
            ELSE ForwardLoop(i1, s1, Sf, lenf)

\* lines 192-200; returns [ok, lenb]
RECURSIVE BackwardLoop(_, _, _, _)
BackwardLoop(i, s, Sb, lenb) ==
    IF ~(scan >= lastscan + i /\ pos >= i)
    THEN [ok |-> TRUE, lenb |-> lenb]
    ELSE IF ~InRange(pos - i, Len(oldbin)) \/ ~InRange(scan - i, Len(newbin))
    THEN [ok |-> FALSE, lenb |-> lenb]
    ELSE LET s1 == IF At(oldbin, pos - i) = At(newbin, scan - i) THEN s + 1 ELSE s
         IN IF s1 * 2 - i > Sb * 2 - lenb
            THEN BackwardLoop(i + 1, s1, s1, i)
            ELSE BackwardLoop(i + 1, s1, Sb, lenb)

\* lines 208-220; returns [ok, lens]
RECURSIVE OverlapLoop(_, _, _, _, _, _, _)
OverlapLoop(i, s, Ss, lens, overlap, lenf, lenb) ==
    IF ~(i < overlap) THEN [ok |-> TRUE, lens |-> lens]
    ELSE IF \/ ~InRange(lastscan + lenf - overlap + i, Len(newbin))
            \/ ~InRange(lastpos + lenf - overlap + i, Len(oldbin))
            \/ ~InRange(scan - lenb + i, Len(newbin))
            \/ ~InRange(pos - lenb + i, Len(oldbin))
    THEN [ok |-> FALSE, lens |-> lens]
    ELSE LET s1 == IF At(newbin, lastscan + lenf - overlap + i)
                        = At(oldbin, lastpos + lenf - overlap + i)
                   THEN s + 1 ELSE s
             s2 == IF At(newbin, scan - lenb + i) = At(oldbin, pos - lenb + i)
                   THEN s1 - 1 ELSE s1
         IN IF s2 > Ss
            THEN OverlapLoop(i + 1, s2, s2, i + 1, overlap, lenf, lenb)
            ELSE OverlapLoop(i + 1, s2, Ss, lens, overlap, lenf, lenb)

\* lines 173-224: the forward and backward extension and the overlap;
\* returns [ok, lenf, lenb]
Extend ==
    LET f == ForwardLoop(0, 0, 0, 0)
        b == IF scan < Len(newbin) THEN BackwardLoop(1, 0, 0, 0)
             ELSE [ok |-> TRUE, lenb |-> 0]
        overlap == (lastscan + f.lenf) - (scan - b.lenb)
        o == OverlapLoop(0, 0, 0, 0, overlap, f.lenf, b.lenb)
    IN IF ~f.ok \/ ~b.ok THEN [ok |-> FALSE, lenf |-> 0, lenb |-> 0]
       ELSE IF lastscan + f.lenf > scan - b.lenb
       THEN [ok |-> o.ok, lenf |-> f.lenf + o.lens - overlap, lenb |-> b.lenb - o.lens]
       ELSE [ok |-> TRUE, lenf |-> f.lenf, lenb |-> b.lenb]

\* lines 227-229: db[dblen+i] = newbin[lastscan+i] - oldbin[lastpos+i]
DiffWritesOk(lenf) ==
    \A i \in 0..(lenf - 1) :
        /\ InRange(dblen + i, Len(db))
        /\ InRange(lastscan + i, Len(newbin))
        /\ InRange(lastpos + i, Len(oldbin))

DiffWrites(lenf) ==
    [k \in 1..Len(db) |->
        IF k - 1 >= dblen /\ k - 1 < dblen + lenf
        THEN (At(newbin, lastscan + (k - 1 - dblen))
                - At(oldbin, lastpos + (k - 1 - dblen)) + 256) % 256
        ELSE db[k]]

\* lines 230-232: eb[eblen+i] = newbin[lastscan+lenf+i]
ExtraWritesOk(lenf, gap) ==
    \A i \in 0..(gap - 1) :
        /\ InRange(eblen + i, Len(eb))
        /\ InRange(lastscan + lenf + i, Len(newbin))

ExtraWrites(lenf, gap) ==
    [k \in 1..Len(eb) |->
        IF k - 1 >= eblen /\ k - 1 < eblen + gap
        THEN At(newbin, lastscan + lenf + (k - 1 - eblen))
        ELSE eb[k]]

diffOnly == <<oldbin, newbin, st, en, codecVars, writerVars>>

InitDiff ==
    /\ pc = "sort"
    /\ \/ oldbin \in ShortInputs /\ newbin \in ShortInputs
       \/ oldbin = oldfile /\ newbin \in {newfilecomp, oldfile}
       \/ oldbin \in LongInputs /\ newbin \in LongInputs
       \/ \E p \in WalkPairs : oldbin = p[1] /\ newbin = p[2]
    /\ SortIdle /\ DiffIdle /\ SearchIdle /\ CodecIdle /\ WriterIdle

\* lines 92-139, after qsufsort has returned: the header and the staging
\* buffers
DiffStart ==
    /\ pc = "sorted"
    /\ header' = NewHeader(Len(newbin))
    /\ pf' = header'
    /\ db' = Zeros(Len(newbin) + 1)
    /\ eb' = Zeros(Len(newbin) + 1)
    /\ pc' = "walk"
    /\ UNCHANGED <<sortVars, scan, ln, lastscan, lastpos, lastoffset, oldscore,
                   scsc, pos, dblen, eblen, ctrl, rebuilt, diffOnly>>

\* lines 147-151: the test of the outer loop and the top of an iteration
WalkTop ==
    /\ pc = "walk"
    /\ scan < Len(newbin)
    /\ oldscore' = 0
    /\ scsc' = scsc + ln
    /\ scan' = scsc'
    /\ pc' = "inner"
    /\ UNCHANGED <<sortVars, ln, lastscan, lastpos, lastoffset, pos, db, eb, dblen,
                   eblen, ctrl, header, pf, rebuilt, diffOnly>>

\* lines 151-169: the candidate search
WalkInner ==
    /\ pc = "inner"
    /\ LET r == InnerLoop(scan, scsc, ln, pos, oldscore)
       IN /\ scan' = r.scan /\ scsc' = r.scsc /\ ln' = r.ln /\ pos' = r.pos
          /\ oldscore' = r.oldscore
          /\ pc' = IF r.ok THEN "emit" ELSE "panic"
    /\ UNCHANGED <<sortVars, lastscan, lastpos, lastoffset, db, eb, dblen, eblen,
                   ctrl, header, pf, rebuilt, diffOnly>>

\* lines 172-255: emit the previous segment
WalkEmit ==
    /\ pc = "emit"
    /\ IF ln # oldscore \/ scan = Len(newbin)
       THEN LET e == Extend
                gap == (scan - e.lenb) - (lastscan + e.lenf)
            IN IF e.ok /\ DiffWritesOk(e.lenf) /\ ExtraWritesOk(e.lenf, gap)
               THEN /\ db' = DiffWrites(e.lenf)
                    /\ eb' = ExtraWrites(e.lenf, gap)
                    /\ dblen' = dblen + e.lenf
                    /\ eblen' = eblen + gap
                    /\ ctrl' = ctrl \o offtout(ToWide(e.lenf)) \o offtout(ToWide(gap))
                                 \o offtout(ToWide((pos - e.lenb) - (lastpos + e.lenf)))
                    /\ lastscan' = scan - e.lenb
                    /\ lastpos' = pos - e.lenb
                    /\ lastoffset' = pos - scan
                    /\ pc' = "walk"
               ELSE /\ pc' = "panic"
                    /\ UNCHANGED <<db, eb, dblen, eblen, ctrl, lastscan, lastpos, lastoffset>>
       ELSE /\ pc' = "walk"
            /\ UNCHANGED <<db, eb, dblen, eblen, ctrl, lastscan, lastpos, lastoffset>>
    /\ UNCHANGED <<sortVars, scan, ln, oldscore, scsc, pos, header, pf, rebuilt, diffOnly>>

\* lines 257-307: close the control stream, write the diff and extra
\* streams, rewrite the header
Serialise ==
    /\ pc = "walk"
    /\ ~(scan < Len(newbin))
    /\ IF InRange(dblen, Len(db) + 1) /\ InRange(eblen, Len(eb) + 1)
       THEN LET pf1 == pf \o Bzip2(ctrl)
                ctrlEnd == Len(pf1)                                      \* line 262
                h1 == PutField(header, 8, ctrlEnd - 32)                  \* line 265
                pf2 == pf1 \o Bzip2(Slice(db, 0, dblen))
                h2 == PutField(h1, 16, Len(pf2) - ctrlEnd)               \* line 281
                pf3 == pf2 \o Bzip2(Slice(eb, 0, eblen))
            IN /\ ln' = ctrlEnd
               /\ header' = h2
               /\ pf' = Overwrite(pf3, h2)
               /\ pc' = "done"
       ELSE /\ pc' = "panic"
            /\ UNCHANGED <<ln, header, pf>>
    /\ UNCHANGED <<sortVars, scan, lastscan, lastpos, lastoffset, oldscore, scsc, pos,
                   db, eb, dblen, eblen, ctrl, rebuilt, diffOnly>>

(***************************************************************************)
(* The applier (bspatch, not part of this package): for each control       *)
(* triple (x, y, z) in order, copy x bytes adding the diff bytes to old at *)
(* the old-cursor, append y extra bytes, move the old-cursor by x + z.     *)
(***************************************************************************)
Triple(c, k) ==
    [x |-> ToInt(offtin(SubSeq(c, 24 * k + 1, 24 * k + 8))),
     y |-> ToInt(offtin(SubSeq(c, 24 * k + 9, 24 * k + 16))),
     z |-> ToInt(offtin(SubSeq(c, 24 * k + 17, 24 * k + 24)))]

AddBytes(old, d, dp, op, n) ==
    [i \in 1..n |->
        IF InRange(op + i - 1, Len(old))
        THEN (At(d, dp + i - 1) + At(old, op + i - 1)) % 256
        ELSE At(d, dp + i - 1)]

RECURSIVE ApplyFrom(_, _, _, _, _, _, _, _)
ApplyFrom(old, c, d, e, k, out, op, dp) ==
    IF k >= Len(c) \div 24 THEN out
    ELSE LET t == Triple(c, k)
             ep == Len(out) - dp
         IN IF t.x < 0 \/ t.y < 0 \/ dp + t.x > Len(d) \/ ep + t.y > Len(e)
            THEN out
            ELSE ApplyFrom(old, c, d, e, k + 1,
                           out \o AddBytes(old, d, dp, op, t.x) \o Slice(e, ep, ep + t.y),
                           op + t.x + t.z, dp + t.x)

Apply(old, c, d, e) == ApplyFrom(old, c, d, e, 0, <<>>, 0, 0)

ApplyPatch ==
    /\ pc = "done"
    /\ rebuilt' = Apply(oldbin, ctrl, Slice(db, 0, dblen), Slice(eb, 0, eblen))
    /\ pc' = "applied"
    /\ UNCHANGED <<sortVars, scan, ln, lastscan, lastpos, lastoffset, oldscore, scsc,
                   pos, db, eb, dblen, eblen, ctrl, header, pf, diffOnly>>

NextDiff == Qsufsort \/ DiffStart \/ WalkTop \/ WalkInner \/ WalkEmit \/ Serialise \/ ApplyPatch

SpecDiff == InitDiff /\ [][NextDiff]_vars

(***************************************************************************)
(* putWriter, lines 534-560.  b is known by its length lb; a chunk passed  *)
(* to target.Write is recorded by its slice bounds [lo, hi) in b.  The     *)
(* writer accepts every chunk in full (it returns len(p), nil).            *)
(***************************************************************************)
WriterInputs ==
    {m * buffersize + d : m \in 0..MaxChunks, d \in 0..MaxExtra}
        \cup {buffersize - 1 - d : d \in 0..MaxExtra}

InitWriter ==
    /\ pc = "put"
    /\ lb \in WriterInputs
    /\ offs = 0 /\ written = <<>> /\ err = "none"
    /\ oldbin = <<>> /\ newbin = <<>>
    /\ SortIdle /\ DiffIdle /\ SearchIdle /\ CodecIdle

notWriter == <<oldbin, newbin, sortVars, st, en, diffVars, codecVars>>

\* lines 536-545: a patch shorter than one chunk is written at once
PutWriterShort ==
    /\ pc = "put"
    /\ lb < buffersize
    /\ written' = Append(written, [lo |-> 0, hi |-> lb])
    /\ err' = "nil"
    /\ pc' = "returned"
    /\ UNCHANGED <<lb, offs, notWriter>>

\* line 546: offs := 0
PutWriterEnter ==
    /\ pc = "put"
    /\ ~(lb < buffersize)
    /\ offs' = 0
    /\ pc' = "loop"
    /\ UNCHANGED <<lb, written, err, notWriter>>

\* lines 548-558: one chunk; the slice is b[offs:n]
PutWriterChunk ==
    /\ pc = "loop"
    /\ offs < lb
    /\ LET n == Min(buffersize, lb - offs)
       IN IF offs > n                      \* b[offs:n]: slice bounds out of range
          THEN /\ err' = "panic" /\ pc' = "returned"
               /\ UNCHANGED <<offs, written>>
          ELSE /\ written' = Append(written, [lo |-> offs, hi |-> n])
               /\ IF n - offs # n               \* line 554: n2 != n
                  THEN err' = "error" /\ pc' = "returned" /\ UNCHANGED offs
                  ELSE offs' = offs + n /\ UNCHANGED <<err, pc>>
    /\ UNCHANGED <<lb, notWriter>>

\* line 559: return nil
PutWriterReturn ==
    /\ pc = "loop"
    /\ ~(offs < lb)
    /\ err' = "nil"
    /\ pc' = "returned"
    /\ UNCHANGED <<lb, offs, written, notWriter>>

NextWriter == PutWriterShort \/ PutWriterEnter \/ PutWriterChunk \/ PutWriterReturn

SpecWriter == InitWriter /\ [][NextWriter]_vars

\* C10: for a patch of any length putWriter writes every byte of b exactly
\* once and in order, in chunks of at most 16384 bytes, and returns nil.
C10_WriterComplete ==
    pc = "returned" =>
        /\ err = "nil"
        /\ Len(written) >= 1
        /\ written[Len(written)].hi = lb
        /\ \A i \in 1..Len(written) :
              /\ written[i].lo = (IF i = 1 THEN 0 ELSE written[i - 1].hi)
              /\ written[i].lo <= written[i].hi
              /\ written[i].hi - written[i].lo <= buffersize

(***************************************************************************)
(* Properties of the suffix sorter, the search and the codec.              *)
(***************************************************************************)
\* a <= b in lexicographic order
LexLeq(a, b) ==
    \E k \in 0..Min(Len(a), Len(b)) :
        /\ SubSeq(a, 1, k) = SubSeq(b, 1, k)
        /\ \/ k = Len(a)
           \/ k < Len(a) /\ k < Len(b) /\ a[k + 1] < b[k + 1]

\* the length of the longest common prefix of a and b
CommonPrefix(a, b) ==
    CHOOSE k \in 0..Min(Len(a), Len(b)) :
        /\ SubSeq(a, 1, k) = SubSeq(b, 1, k)
        /\ (k = Len(a) \/ k = Len(b) \/ a[k + 1] # b[k + 1])

\* C6: after qsufsort returns, I[0..|old|] is a permutation of 0..|old|, the
\* suffixes old[I[k]..] are in non-decreasing lexicographic order in k, and
\* the empty suffix (offset |old|) is at I[0].
C6_SuffixSorted ==
    pc \in {"sorted", "found"} =>
        /\ DOMAIN iii = 0..Len(oldbin)
        /\ {iii[k] : k \in 0..Len(oldbin)} = 0..Len(oldbin)
        /\ iii[0] = Len(oldbin)
        /\ \A k \in 0..(Len(oldbin) - 1) :
              LexLeq(From(oldbin, iii[k]), From(oldbin, iii[k + 1]))

\* C6 witness: an input whose first group has 16 or more suffixes and more
\* than one byte value has been sorted.
C6_Witness ==
    /\ pc = "sorted"
    /\ Len(oldbin) >= 20
    /\ \E i \in 1..Len(oldbin) : oldbin[i] # oldbin[1]

MatchAt(k) == matchlen(From(oldbin, iii[k]), newbin)

\* C9 as stated: the result of search is an offset of I[st..en] with its true
\* common-prefix length; in the base case it is the larger of the two
\* match lengths, and on a tie the position is I[st].
C9_SearchTieSt ==
    pc = "found" =>
        /\ pos \in {iii[k] : k \in st..en}
        /\ ln = CommonPrefix(From(oldbin, pos), newbin)
        /\ en - st < 2 =>
              /\ ln = IF MatchAt(st) > MatchAt(en) THEN MatchAt(st) ELSE MatchAt(en)
              /\ MatchAt(st) = MatchAt(en) => pos = iii[st]

\* C9 amended: the same, but on a tie the position is I[en].
C9_SearchTieEn ==
    pc = "found" =>
        /\ pos \in {iii[k] : k \in st..en}
        /\ ln = CommonPrefix(From(oldbin, pos), newbin)
        /\ en - st < 2 =>
              /\ ln = IF MatchAt(st) > MatchAt(en) THEN MatchAt(st) ELSE MatchAt(en)
              /\ MatchAt(st) = MatchAt(en) => pos = iii[en]

\* C9 witness: a base-case search over two different offsets with a tie of
\* non-zero length.
C9_Witness ==
    /\ pc = "found"
    /\ en = st + 1
    /\ MatchAt(st) = MatchAt(en)
    /\ ln > 0
    /\ pos = iii[en]

\* byte k (0..7) of the magnitude of w in little-endian base 256
Digit(w, k) ==
    IF k < 3 THEN (w.lo \div (256 ^ k)) % 256
    ELSE IF k < 6 THEN (w.mid \div (256 ^ (k - 3))) % 256
    ELSE (w.hi \div (256 ^ (k - 6))) % 256

\* -x of Go
WNeg(w) == [w EXCEPT !.neg = ~@ /\ (w.hi # 0 \/ w.mid # 0 \/ w.lo # 0)]

\* C7: offtout writes |x| in little-endian base 256 into bytes 0..7 and sets
\* bit 0x80 of byte 7 exactly when x < 0; decoding returns x; -0 and +0 have
\* the same encoding.
C7_Codec ==
    pc \in {"decode", "decoded"} =>
        /\ Len(buf) = 8
        /\ \A k \in 0..6 : buf[k + 1] = Digit(x, k)
        /\ buf[8] % 128 = Digit(x, 7)
        /\ (buf[8] >= 128) <=> x.neg
        /\ pc = "decoded" => dec = x
        /\ x = ToWide(0) => buf = offtout(WNeg(x))

\* C7 witness: a negative x of magnitude 2^56 or more has been encoded and
\* decoded.
C7_Witness ==
    /\ pc = "decoded"
    /\ x.neg
    /\ x.hi >= 256
    /\ dec = x

(***************************************************************************)
(* Properties of diffb.                                                    *)
(***************************************************************************)
Finished == pc \in {"done", "applied", "panic"}

\* the sum of x + y over the control triples of c
RECURSIVE SumXY(_, _)
SumXY(c, k) ==
    IF k >= Len(c) \div 24 THEN 0
    ELSE Triple(c, k).x + Triple(c, k).y + SumXY(c, k + 1)

\* The digest the header is to carry.  diffb computes no digest; for the
\* statement of C5 it is a 32-byte function of old.
RECURSIVE Mix(_, _, _)
Mix(s, i, acc) ==
    IF i > Len(s) THEN acc ELSE Mix(s, i + 1, (acc * 31 + s[i] + 1) % 65521)

Sha256(s) == [k \in 1..32 |-> Mix(s, 1, k) % 256]

\* C1: round trip.  For all old and new, diffb returns control, diff and
\* extra streams, and applying them to old rebuilds exactly new.
C1_RoundTrip ==
    /\ pc # "panic"
    /\ pc = "applied" => rebuilt = newbin

\* C2: diffb is total: it runs to completion for every (old, new), with no
\* index outside its array.
C2_NoPanic == pc # "panic"

\* C3: coverage.  When the outer walk has ended, scan = |new| and the
\* control triples satisfy sum(x_i + y_i) = |new|.
C3_Coverage ==
    Finished => scan = Len(newbin) /\ SumXY(ctrl, 0) = Len(newbin)

\* C4: identity.  diffb(X, X) yields control triples whose copy and extra
\* lengths sum to |X|, an empty extra stream and a diff stream of zeros.
C4_Identity ==
    (Finished /\ oldbin = newbin) =>
        /\ pc # "panic"
        /\ SumXY(ctrl, 0) = Len(newbin)
        /\ eblen = 0
        /\ \A i \in 1..dblen : db[i] = 0

\* C5: the patch starts with a 64-byte header: bytes 0..7 are "BSDIFF40",
\* bytes 24..31 encode |new|, bytes 32..63 are the SHA-256 of old, and bytes
\* 8..15 hold the number of bytes the control-stream compressor wrote after
\* the header, so that the compressed control stream starts at offset 64.
C5_Header ==
    pc \in {"done", "applied"} =>
        /\ Len(pf) >= 64
        /\ SubSeq(pf, 1, 8) = Magic
        /\ ToInt(offtin(SubSeq(pf, 25, 32))) = Len(newbin)
        /\ SubSeq(pf, 33, 64) = Sha256(oldbin)
        /\ ToInt(offtin(SubSeq(pf, 9, 16))) = Len(Bzip2(ctrl))
        /\ SubSeq(pf, 65, 64 + Len(Bzip2(ctrl))) = Bzip2(ctrl)

\* C8: at the top of every outer iteration oldscore is set to 0, scan is
\* advanced by exactly ln from the value it had when the previous iteration
\* ended, and scsc is set equal to scan.
C8_OuterTop ==
    [][(pc = "walk" /\ pc' = "inner") =>
          (oldscore' = 0 /\ scan' = scan + ln /\ scsc' = scan')]_vars

====
